---- MODULE Spec2Model ----
(***************************************************************************)
(* A model of the turbostat collector                                      *)
(* (collectors/python.d.plugin/turbostat/turbostat.chart.py).              *)
(*                                                                         *)
(* A line of tool output is a sequence of tokens: a token is a field name  *)
(* word, the two-byte separator ": ", a blank " ", a single character of a *)
(* value ("0".."9", "a".."f", or the non-digit "z"), a lone ":" (what      *)
(* rstrip leaves of a trailing ": ") or a byte that is not valid UTF-8.    *)
(* A Python dict that is iterated is a record [keys, map]: keys is the     *)
(* insertion order, map the contents.  A CpuRecord is a function from      *)
(* field names to integers.  A call that can raise returns a record whose  *)
(* kind says how it ended.                                                 *)
(***************************************************************************)
EXTENDS Integers, Sequences, FiniteSets, TLC

VARIABLES
    \* Line Parser / Snapshot Builder, one loop iteration at a time
    lines,                \* the lines of proc.stdout consumed so far
    cpu,                  \* the cursor of _invoke_turbostat: <<>> is None, <<i>> is cpus[i]
    cpus,                 \* the dict _invoke_turbostat builds
    exc,                  \* the exception that ended the loop, "" while none

    \* Delta Engine
    before, after, result,

    \* the Service object and its surroundings
    hw,                   \* the machine: logical CPU -> [package, core, llc]
    templates,            \* the order in which CHART_TEMPLATES.items() yields the charts
    configuration,        \* self.configuration
    order,                \* self.order
    definitions,          \* self.definitions
    phase,                \* "new", then what check() made of it: "ready" (True),
                          \* "disabled" (False), "crashed" (an exception)
    assignment,           \* self.assignment
    rapl,                 \* self.rapl
    last_turbostat,       \* self.last_turbostat
    last_turbostat_time,  \* self.last_turbostat_time
    ret,                  \* what the last call handed to the framework, until it is taken
    rapl_reads,           \* history: the get_rapl_power_unit calls of check(), in order
    poll                  \* history: the last check or _get_data call, until its result is taken

parseVars == <<lines, cpu, cpus, exc>>
deltaVars == <<before, after, result>>
selfVars == <<order, definitions, assignment, rapl, last_turbostat, last_turbostat_time>>
envVars == <<hw, templates, configuration>>
svcVars == <<envVars, phase, selfVars, ret, rapl_reads, poll>>
vars == <<parseVars, deltaVars, svcVars>>

----------------------------------------------------------------------------
(* Bounds *)

MaxLines == 4             \* lines of one tool output in the line-by-line specification
MaxCounter == 1           \* counters read 0..MaxCounter
MaxTime == 1              \* time.time() returns 0..MaxTime

----------------------------------------------------------------------------
(* Python values *)

Sep == ": "
Blank == " "
Colon == ":"
BadByte == "<ff>"

HexDigits == <<"0", "1", "2", "3", "4", "5", "6", "7", "8", "9",
               "a", "b", "c", "d", "e", "f">>

EmptyDict == [keys |-> <<>>, map |-> <<>>]

DictHas(d, k) == k \in DOMAIN d.map

\* d[k] = v: a new key goes to the end, an old key keeps its place
DictSet(d, k, v) ==
    [keys |-> IF DictHas(d, k) THEN d.keys ELSE Append(d.keys, k),
     map  |-> (k :> v) @@ d.map]

Range(s) == {s[i] : i \in DOMAIN s}

----------------------------------------------------------------------------
(* Line Parser *)

BASE10_LINES == {"CPU", "core", "IRQ", "SMI", "package"}

\* bytes.rstrip(): trailing whitespace goes, and with it the blank of a trailing ": "
RECURSIVE rstrip(_)
rstrip(line) ==
    IF line = <<>> THEN <<>>
    ELSE LET last == line[Len(line)]
             init == SubSeq(line, 1, Len(line) - 1) IN
         IF last = Blank THEN rstrip(init)
         ELSE IF last = Sep THEN Append(init, Colon)
         ELSE line

\* bytes.strip() of a value, as int() does before it reads the digits
RECURSIVE lstrip(_)
lstrip(s) == IF s # <<>> /\ s[1] = Blank THEN lstrip(Tail(s)) ELSE s

RECURSIVE rstripBlanks(_)
rstripBlanks(s) ==
    IF s # <<>> /\ s[Len(s)] = Blank THEN rstripBlanks(SubSeq(s, 1, Len(s) - 1)) ELSE s

strip(s) == rstripBlanks(lstrip(s))

\* value.split(): the whitespace-separated words of a value
RECURSIVE split(_)
split(s) ==
    LET t == lstrip(s) IN
    IF t = <<>> THEN <<>>
    ELSE LET n == IF \E i \in 1..Len(t) : t[i] = Blank
                  THEN (CHOOSE i \in 1..Len(t) :
                            t[i] = Blank /\ \A j \in 1..(i - 1) : t[j] # Blank) - 1
                  ELSE Len(t) IN
         <<SubSeq(t, 1, n)>> \o split(SubSeq(t, n + 1, Len(t)))

DigitValue(ch) == (CHOOSE i \in 1..16 : HexDigits[i] = ch) - 1

IsDigit(ch, base) == \E i \in 1..base : HexDigits[i] = ch

\* whether int(word, base) succeeds, and what it returns
IsInt(word, base) ==
    LET w == strip(word) IN w # <<>> /\ \A i \in 1..Len(w) : IsDigit(w[i], base)

RECURSIVE Digits(_, _)
Digits(w, base) ==
    IF w = <<>> THEN 0
    ELSE Digits(SubSeq(w, 1, Len(w) - 1), base) * base + DigitValue(w[Len(w)])

int(word, base) == Digits(strip(word), base)

\* line.split(b': ', 1): the position of the first separator, 0 when there is none
SepAt(line) ==
    IF \E i \in 1..Len(line) : line[i] = Sep
    THEN CHOOSE i \in 1..Len(line) : line[i] = Sep /\ \A j \in 1..(i - 1) : line[j] # Sep
    ELSE 0

RECURSIVE decode(_)
decode(s) == IF s = <<>> THEN "" ELSE s[1] \o decode(Tail(s))

ReturnNone == [kind |-> "None"]
ReturnStat(name, value) == [kind |-> "stat", name |-> name, value |-> value]
Raise(e) == [kind |-> "raise", exc |-> e]

parse_stat_line(line) ==
    LET i == SepAt(line) IN
    IF i = 0 THEN ReturnNone
    ELSE LET head  == SubSeq(line, 1, i - 1)
             value == SubSeq(line, i + 1, Len(line)) IN
         IF BadByte \in Range(head) THEN Raise("UnicodeDecodeError")
         ELSE LET name == decode(head) IN
              IF name = "CPU"
              THEN LET words == split(value) IN
                   IF words = <<>> THEN Raise("IndexError")
                   ELSE IF ~IsInt(words[1], 10) THEN Raise("ValueError")
                   ELSE ReturnStat(name, int(words[1], 10))
              ELSE LET base == IF name \in BASE10_LINES THEN 10 ELSE 16 IN
                   IF IsInt(value, base) THEN ReturnStat(name, int(value, base))
                   ELSE ReturnNone

----------------------------------------------------------------------------
(* Snapshot Builder *)

LoopStart == [cpu |-> <<>>, cpus |-> EmptyDict, exc |-> ""]

\* a blank line that leaves the cursor where it is
OnBlank_KeepsCursor(st) == st

\* "if not line: cpu = None; continue"
OnBlank(st) == [st EXCEPT !.cpu = <<>>]

\* a CPU header that goes on with the record its index already has
OnHeader_KeepsRecord(st, stat) ==
    [st EXCEPT !.cpu  = <<stat.value>>,
               !.cpus = DictSet(st.cpus, stat.value,
                                IF DictHas(st.cpus, stat.value)
                                THEN (stat.name :> stat.value) @@ st.cpus.map[stat.value]
                                ELSE (stat.name :> stat.value))]

\* "if name == 'CPU': cpu = {}; cpus[value] = cpu" and then "cpu[name] = value"
OnHeader(st, stat) ==
    [st EXCEPT !.cpu  = <<stat.value>>,
               !.cpus = DictSet(st.cpus, stat.value, (stat.name :> stat.value))]

\* one iteration of "for line in proc.stdout" on the loop's locals
LoopBody(st, raw) ==
    LET line == rstrip(raw) IN
    IF line = <<>> THEN OnBlank(st)
    ELSE LET stat == parse_stat_line(line) IN
         IF stat.kind = "raise" THEN [st EXCEPT !.exc = stat.exc]
         ELSE IF stat.kind = "None" THEN st
         ELSE IF st.cpu = <<>> /\ stat.name # "CPU" THEN st
         ELSE IF stat.name = "CPU" THEN OnHeader(st, stat)
              ELSE LET i == st.cpu[1] IN
                   [st EXCEPT !.cpus = DictSet(st.cpus, i,
                                               (stat.name :> stat.value) @@ st.cpus.map[i])]

RECURSIVE Loop(_, _)
Loop(st, out) ==
    IF out = <<>> \/ st.exc # "" THEN st ELSE Loop(LoopBody(st, Head(out)), Tail(out))

Return(v) == [kind |-> "return", value |-> v]

\* A run of the tool: Popen fails (OSError), or the process prints `out`.  time.time()
\* returns `now`.
invoke_turbostat(run, now) ==
    IF ~run.started THEN Raise("OSError")
    ELSE LET st == Loop(LoopStart, run.out) IN
         IF st.exc # "" THEN Raise(st.exc)
         ELSE Return([now |-> now, cpus |-> st.cpus])

----------------------------------------------------------------------------
(* Delta Engine *)

\* The values of a CpuRecord are the integers _parse_stat_line returns, so the
\* subtraction never raises TypeError; after[key] raises KeyError for a key of
\* `before` that `after` lacks, and no handler catches it.
dict_delta(b, a) ==
    IF \E key \in DOMAIN b : key \notin DOMAIN a THEN Raise("KeyError")
    ELSE Return([key \in DOMAIN b |-> a[key] - b[key]])

----------------------------------------------------------------------------
(* The Line Parser and the Snapshot Builder, line by line *)

\* the lines the tool may print: blank and blank-looking lines, a debug message,
\* CPU headers (good, with trailing words, not a number, cut short, not UTF-8),
\* base-10 and base-16 fields with values that parse in one base, both or none
ToolLines ==
    { <<>>,
      <<Blank>>,
      <<"turbostat">>,
      <<"CPU", Sep, "0">>,
      <<"CPU", Sep, "1", Blank, "z">>,
      <<"CPU", Sep, "z">>,
      <<"CPU", Sep>>,
      <<BadByte, Sep, "1">>,
      <<"core", Sep, "1">>,
      <<"core", Sep, "a">>,
      <<"TSC", Sep, "1", "0">>,
      <<"TSC", Sep, "z">> }

NoCall == [kind |-> "none"]

InitDelta == before = <<>> /\ after = <<>> /\ result = NoCall

\* Service.__init__, on a machine with no CPU
InitService ==
    /\ hw = <<>>
    /\ templates = <<"power", "avg_mhz", "busy_mhz">>
    /\ configuration = <<>>
    /\ order = <<>>
    /\ definitions = EmptyDict
    /\ phase = "new"
    /\ assignment = EmptyDict
    /\ rapl = <<>>
    /\ last_turbostat = EmptyDict
    /\ last_turbostat_time = 0
    /\ ret = NoCall
    /\ rapl_reads = <<>>
    /\ poll = NoCall

InitParse ==
    /\ lines = <<>>
    /\ cpu = LoopStart.cpu
    /\ cpus = LoopStart.cpus
    /\ exc = LoopStart.exc
    /\ InitDelta
    /\ InitService

\* proc.stdout yields one more line and the loop body runs on it
ReadLine ==
    /\ exc = ""
    /\ Len(lines) < MaxLines
    /\ \E raw \in ToolLines :
          LET st == LoopBody([cpu |-> cpu, cpus |-> cpus, exc |-> exc], raw) IN
          /\ lines' = Append(lines, raw)
          /\ cpu' = st.cpu
          /\ cpus' = st.cpus
          /\ exc' = st.exc
    /\ UNCHANGED <<deltaVars, svcVars>>

NextParse == ReadLine

SpecParse == InitParse /\ [][NextParse]_vars

----------------------------------------------------------------------------
(* What a line of a consumed stream is, read off the stream alone *)

StatAt(ls, k) == parse_stat_line(rstrip(ls[k]))
IsBlankAt(ls, k) == rstrip(ls[k]) = <<>>
IsHeaderAt(ls, k) == StatAt(ls, k).kind = "stat" /\ StatAt(ls, k).name = "CPU"
IsFieldAt(ls, k) == StatAt(ls, k).kind = "stat" /\ StatAt(ls, k).name # "CPU"

\* the CPU header line k stands under: the nearest earlier line that is a header or
\* blank, when that is a header; 0 when line k stands under no header
OwnerAt(ls, k) ==
    LET marks == {h \in 1..(k - 1) : IsHeaderAt(ls, h) \/ IsBlankAt(ls, h)} IN
    IF marks = {} THEN 0
    ELSE LET h == CHOOSE m \in marks : \A g \in marks : g <= m IN
         IF IsHeaderAt(ls, h) THEN h ELSE 0

\* C7: per-line errors never propagate out of the Line Parser: whatever lines of
\* valid UTF-8 the tool prints (no separator, a CPU line whose value is no base-10
\* integer, a field whose value does not parse), _parse_stat_line returns a pair or
\* None and no exception ends the Snapshot Builder's loop.
C7_NeverRaises ==
    (\A k \in DOMAIN lines : BadByte \notin Range(lines[k])) => exc = ""

\* C8: a record exists only for a CPU index that stood in a CPU header
C8_OnlyUnderHeader ==
    \A i \in DOMAIN cpus.map :
        \E h \in 1..Len(lines) : IsHeaderAt(lines, h) /\ StatAt(lines, h).value = i

\* C8: every other field of a record came from a line standing under a header of
\* that record's index, with no blank line in between
C8_FieldsOwned ==
    \A i \in DOMAIN cpus.map :
        \A n \in DOMAIN cpus.map[i] \ {"CPU"} :
            \E k \in 1..Len(lines) :
                /\ IsFieldAt(lines, k)
                /\ StatAt(lines, k).name = n
                /\ StatAt(lines, k).value = cpus.map[i][n]
                /\ OwnerAt(lines, k) # 0
                /\ StatAt(lines, OwnerAt(lines, k)).value = i

\* C8: a field read while no header is open changes no record
C8_StrayDiscarded ==
    (/\ Len(lines') = Len(lines) + 1
     /\ IsFieldAt(lines', Len(lines'))
     /\ OwnerAt(lines', Len(lines')) = 0) => cpus' = cpus

\* C8: the Snapshot Builder emits a CpuRecord only for a CPU index that appeared
\* under a CPU field; a non-CPU field goes only into the record of the most recent
\* CPU header with no blank line between them; a field read while the cursor is
\* unset (before the first header, or after a blank line) changes no record.
C8_SnapshotBuilder ==
    /\ [](C8_OnlyUnderHeader /\ C8_FieldsOwned)
    /\ [][C8_StrayDiscarded]_vars

\* a header, a field kept in its record, a blank line and a field discarded after it
C8_Witness ==
    /\ exc = ""
    /\ \E h, k, b, d \in 1..Len(lines) :
          /\ h < k /\ k < b /\ b < d
          /\ IsHeaderAt(lines, h)
          /\ IsFieldAt(lines, k) /\ OwnerAt(lines, k) = h
          /\ StatAt(lines, k).name \in DOMAIN cpus.map[StatAt(lines, h).value]
          /\ IsBlankAt(lines, b)
          /\ IsFieldAt(lines, d) /\ OwnerAt(lines, d) = 0
          /\ StatAt(lines, d).name \notin DOMAIN cpus.map[StatAt(lines, h).value]

----------------------------------------------------------------------------
(* The Delta Engine on two records of one CPU *)

Counters == 0..MaxCounter

\* the records of CPU 0 the Snapshot Builder can hand over: the header's own
\* field, and each counter either missing or read
DeltaRecords ==
    { ("CPU" :> 0) @@ r : r \in UNION { [F -> Counters] : F \in SUBSET {"TSC", "mperf"} } }

InitDeltaSpec ==
    /\ before \in DeltaRecords
    /\ after \in DeltaRecords
    /\ result = NoCall
    /\ lines = <<>>
    /\ cpu = LoopStart.cpu
    /\ cpus = LoopStart.cpus
    /\ exc = LoopStart.exc
    /\ InitService

Delta ==
    /\ result.kind = "none"
    /\ result' = dict_delta(before, after)
    /\ UNCHANGED <<before, after, parseVars, svcVars>>

NextDelta == Delta

SpecDelta == InitDeltaSpec /\ [][NextDelta]_vars

\* C3: the Delta Engine never lets an exception escape: a key of `before` that is
\* absent from `after` is silently omitted from the result and the remaining keys
\* are still produced.
C3_NoExceptionEscapes ==
    result.kind # "none" =>
        /\ result.kind = "return"
        /\ DOMAIN result.value = DOMAIN before \cap DOMAIN after
        /\ \A key \in DOMAIN result.value : result.value[key] = after[key] - before[key]

----------------------------------------------------------------------------
(* Metric Deriver: Service._get_data *)

cpuname_of(cpuidx) == "cpu" \o ToString(cpuidx)
pkgname_of(pkgidx) == "pkg" \o ToString(pkgidx)

\* The floats of the collector are kept as exact fractions with a positive
\* denominator; a division by zero is decided before a fraction is built.
Frac(n, d) == IF d < 0 THEN [num |-> -n, den |-> -d] ELSE [num |-> n, den |-> d]

\* an energy delta used as it is
max0_NoClamp(x) == x

\* max(0, x)
max0(x) == IF x > 0 THEN x ELSE 0

\* the power branch taken for every CPU of a package with RaplUnits
PowerWanted_EveryCpu(data, pkgname, pkgidx, self) == pkgidx \in DOMAIN self.rapl

\* the power branch taken only while every resolved package has RaplUnits
PowerWanted_AllOrNothing(data, pkgname, pkgidx, self) ==
    /\ (pkgname \o "_ram_watts") \notin DOMAIN data
    /\ pkgidx \in DOMAIN self.rapl
    /\ \A n \in DOMAIN self.assignment.map :
          self.assignment.map[n].package \in DOMAIN self.rapl

\* "if pkgname + '_ram_watts' not in data and pkgidx in self.rapl"
PowerWanted(data, pkgname, pkgidx, self) ==
    (pkgname \o "_ram_watts") \notin DOMAIN data /\ pkgidx \in DOMAIN self.rapl

\* lines 163-171: the three power values of a package, from one CPU's delta
PowerValues(delta, pkgname, energy_units, time) ==
    LET ram == max0(delta["Joules RAM"])
        pkg == max0(delta["Joules PKG"])
        gfx == max0(delta["Joules GFX"]) IN
    ((pkgname \o "_ram_watts") :> Frac(ram * energy_units.num * 100, energy_units.den * time))
    @@ ((pkgname \o "_pkg_watts") :> Frac(pkg * energy_units.num * 100, energy_units.den * time))
    @@ ((pkgname \o "_gfx_watts") :> Frac(gfx * energy_units.num * 100, energy_units.den * time))

\* One iteration of "for cpuidx, stats in turbostat.items()".  acc holds the local
\* `data`, the exception that left the loop ("" while none) and, as history, the
\* <<package, cpu>> pairs for which the power branch ran.
PollBody(self, now, turbostat, acc, cpuidx) ==
    LET stats == turbostat.map[cpuidx] IN
    IF ~DictHas(self.last_turbostat, cpuidx) THEN [acc EXCEPT !.exc = "KeyError"]
    ELSE
    LET d == dict_delta(self.last_turbostat.map[cpuidx], stats) IN
    IF d.kind = "raise" THEN [acc EXCEPT !.exc = d.exc]
    ELSE
    LET delta == d.value IN
    IF ~({"TSC", "aperf", "mperf"} \subseteq DOMAIN delta) THEN [acc EXCEPT !.exc = "KeyError"]
    ELSE
    LET tsc   == delta["TSC"]
        aperf == delta["aperf"]
        mperf == delta["mperf"]
        time  == now - self.last_turbostat_time IN
    IF time = 0 THEN [acc EXCEPT !.exc = "ZeroDivisionError"]
    ELSE IF mperf = 0 THEN [acc EXCEPT !.exc = "ZeroDivisionError"]
    ELSE
    LET avg_mhz  == Frac(aperf, time * 1000)
        busy_mhz == Frac(tsc * aperf, 1000 * mperf * time)
        cpuname  == cpuname_of(cpuidx)
        data1    == ((cpuname \o "_busy_mhz") :> busy_mhz)
                    @@ ((cpuname \o "_avg_mhz") :> avg_mhz) @@ acc.data IN
    IF ~DictHas(self.assignment, cpuname) THEN [acc EXCEPT !.exc = "KeyError"]
    ELSE
    LET pkgidx  == self.assignment.map[cpuname].package
        pkgname == pkgname_of(pkgidx) IN
    IF PowerWanted(data1, pkgname, pkgidx, self)
    THEN IF ~({"Joules RAM", "Joules PKG", "Joules GFX"} \subseteq DOMAIN delta)
         THEN [acc EXCEPT !.exc = "KeyError"]
         ELSE [acc EXCEPT
                 !.data  = PowerValues(delta, pkgname, self.rapl[pkgidx][2], time) @@ data1,
                 !.power = Append(acc.power, <<pkgidx, cpuidx>>)]
    ELSE [acc EXCEPT !.data = data1]

RECURSIVE PollLoop(_, _, _, _, _)
PollLoop(self, now, turbostat, acc, keys) ==
    IF keys = <<>> \/ acc.exc # "" THEN acc
    ELSE PollLoop(self, now, turbostat,
                  PollBody(self, now, turbostat, acc, Head(keys)), Tail(keys))

\* a failure that drops the retained snapshot and stamps the time of the attempt
Propagate_DropsSnapshot(self, now, e) ==
    [ret |-> Raise(e), last_turbostat |-> EmptyDict, last_turbostat_time |-> now]

\* An exception leaves _get_data: nothing of self was assigned
Propagate(self, now, e) ==
    [ret |-> Raise(e),
     last_turbostat |-> self.last_turbostat,
     last_turbostat_time |-> self.last_turbostat_time]

\* a poll that retains the new snapshot whether or not the loop raised
get_data_end_AlwaysRetains(self, now, turbostat, acc) ==
    [ret |-> IF acc.exc # "" THEN Raise(acc.exc) ELSE Return(acc.data),
     last_turbostat |-> turbostat,
     last_turbostat_time |-> now,
     invoked |-> TRUE, turbostat |-> turbostat, power |-> acc.power]

\* lines 173-176, or the exception leaving the loop at 142-171
get_data_end(self, now, turbostat, acc) ==
    IF acc.exc # ""
    THEN Propagate(self, now, acc.exc)
         @@ [invoked |-> TRUE, turbostat |-> turbostat, power |-> acc.power]
    ELSE [ret |-> Return(acc.data),
          last_turbostat |-> turbostat,
          last_turbostat_time |-> now,
          invoked |-> TRUE, turbostat |-> turbostat, power |-> acc.power]

\* lines 138-176, once _invoke_turbostat has ended as `inv`
get_data_on(self, now, inv) ==
    IF inv.kind = "raise"
    THEN Propagate(self, now, inv.exc)
         @@ [invoked |-> FALSE, turbostat |-> EmptyDict, power |-> <<>>]
    ELSE get_data_end(self, inv.value.now, inv.value.cpus,
                      PollLoop(self, inv.value.now, inv.value.cpus,
                               [data |-> <<>>, exc |-> "", power |-> <<>>],
                               inv.value.cpus.keys))

\* _get_data on the object `self`, when the tool runs as `run` and the clock reads
\* `now`: the value returned or the exception raised, the two fields it assigns, and
\* as history what the invocation returned and where the power branch ran
get_data(self, run, now) == get_data_on(self, now, invoke_turbostat(run, now))

----------------------------------------------------------------------------
(* Topology Resolver: the first half of Service.check *)

RECURSIVE pow2(_)
pow2(n) == IF n = 0 THEN 1 ELSE 2 * pow2(n - 1)

\* lines 212-213: 1.0 / (1 << (msr & 0xF)) and 1.0 / (1 << ((msr >> 8) & 0x1F))
rapl_units(msr) ==
    << Frac(1, pow2(msr % 16)), Frac(1, pow2((msr \div 256) % 32)) >>

\* lines 206-214, for a package that has no entry in self.rapl: the register read
\* of this CPU ends as `rd`; IOError leaves self.rapl as it is
ResolveRapl(acc, pkgidx, cpuidx, rd) ==
    IF rd.ok
    THEN [acc EXCEPT !.rapl = (pkgidx :> rapl_units(rd.msr)) @@ acc.rapl,
                     !.reads = Append(acc.reads, [cpu |-> cpuidx, package |-> pkgidx, ok |-> TRUE])]
    ELSE [acc EXCEPT !.reads = Append(acc.reads, [cpu |-> cpuidx, package |-> pkgidx, ok |-> FALSE])]

\* One iteration of "for cpuidx, stats in self.last_turbostat.items()" on the machine
\* m, whose sysfs gives the cache id; msr_read[cpuidx] is how get_rapl_power_unit
\* would end for that CPU.
TopologyBody(m, msr_read, snapshot, acc, cpuidx) ==
    LET stats == snapshot.map[cpuidx] IN
    IF "package" \notin DOMAIN stats \/ "core" \notin DOMAIN stats
    THEN [acc EXCEPT !.exc = "KeyError"]
    ELSE IF cpuidx \notin DOMAIN m THEN [acc EXCEPT !.exc = "IOError"]
    ELSE
    LET pkgidx == stats["package"]
        acc1 == [acc EXCEPT !.assignment =
                    DictSet(acc.assignment, cpuname_of(cpuidx),
                            [cpuidx |-> cpuidx, package |-> pkgidx,
                             core |-> stats["core"], llc_id |-> m[cpuidx].llc])] IN
    IF pkgidx \notin DOMAIN acc1.rapl
    THEN ResolveRapl(acc1, pkgidx, cpuidx, msr_read[cpuidx])
    ELSE acc1

RECURSIVE TopologyLoop(_, _, _, _, _)
TopologyLoop(m, msr_read, snapshot, acc, keys) ==
    IF keys = <<>> \/ acc.exc # "" THEN acc
    ELSE TopologyLoop(m, msr_read, snapshot,
                      TopologyBody(m, msr_read, snapshot, acc, Head(keys)), Tail(keys))

----------------------------------------------------------------------------
(* Series Assignment Builder: the second half of Service.check *)

CHART_TEMPLATES ==
    ("power" :>
        (("options" :> <<"None", "Power utilization", "Watts", "turbostat", "turbostat", "line">>)
         @@ ("_divisor" :> 100)
         @@ ("_per" :> "package")
         @@ ("_replace" :> << <<"_watts", "">> >>)
         @@ ("_metrics" :> <<"pkg_watts", "ram_watts", "gfx_watts">>)
         @@ ("lines" :> <<>>)))
    @@ ("avg_mhz" :>
        (("options" :> <<"None", "Average CPU clock frequency, including idle time", "MHz",
                         "turbostat", "turbostat", "line">>)
         @@ ("lines" :> <<>>)))
    @@ ("busy_mhz" :>
        (("options" :> <<"None", "Average CPU clock frequency, when busy", "MHz",
                         "turbostat", "turbostat", "line">>)
         @@ ("lines" :> <<>>)))

\* the order of the dict literal at lines 15-35
SourceOrder == <<"power", "avg_mhz", "busy_mhz">>

\* dict.get(key, default)
get(d, key, default) == IF key \in DOMAIN d THEN d[key] ELSE default

\* a value that is not a valid choice taken as 'logical'
split_by_of_InvalidAsLogical(cfg) ==
    IF "split_by" \notin DOMAIN cfg THEN <<>>
    ELSE IF cfg["split_by"] \notin {"logical", "llc", "core", "package"} THEN <<"logical">>
    ELSE <<cfg["split_by"]>>

\* lines 179-186: the configured split_by, <<>> for None
split_by_of(cfg) ==
    IF "split_by" \notin DOMAIN cfg THEN <<>>
    ELSE IF cfg["split_by"] \notin {"logical", "llc", "core", "package"} THEN <<>>
    ELSE <<cfg["split_by"]>>

\* a < b for two tuples of integers of one length, as Python orders tuples
TupleLess(a, b) ==
    \E i \in 1..Len(a) : a[i] < b[i] /\ \A j \in 1..(i - 1) : a[j] = b[j]

\* sorted(items, key=...) on <<key, item>> pairs: stable, smallest key first
RECURSIVE sorted(_)
sorted(ps) ==
    IF ps = <<>> THEN <<>>
    ELSE LET rest == sorted(SubSeq(ps, 1, Len(ps) - 1))
             x == ps[Len(ps)]
             n == Cardinality({i \in DOMAIN rest : ~TupleLess(x[1], rest[i][1])}) IN
         SubSeq(rest, 1, n) \o <<x>> \o SubSeq(rest, n + 1, Len(rest))

\* int(v[3:].split('_')[0]) for a name 'cpu%d' of self.assignment
cpuidx_of_name(asg, v) ==
    CHOOSE i \in {asg.map[n].cpuidx : n \in DOMAIN asg.map} : cpuname_of(i) = v

\* line 225: sorted(self.assignment, key=lambda v: int(v[3:].split('_')[0]))
sorted_cpunames(asg) ==
    LET ps == sorted([k \in DOMAIN asg.keys |-> << <<cpuidx_of_name(asg, asg.keys[k])>>, asg.keys[k] >>]) IN
    [k \in DOMAIN ps |-> ps[k][2]]

\* nickname.replace('_watts', '') on the names that reach it
replace_watts(nickname) ==
    IF nickname = "pkg_watts" THEN "pkg"
    ELSE IF nickname = "ram_watts" THEN "ram"
    ELSE IF nickname = "gfx_watts" THEN "gfx"
    ELSE nickname

\* grouping by package done as grouping by logical CPU
suffix_of_PackageAsLogical(split_by, per, a) ==
    IF per = "package" THEN <<pkgname_of(a.package)>>
    ELSE IF split_by \in {<<"package">>, <<"logical">>} THEN <<cpuname_of(a.cpuidx)>>
    ELSE IF split_by = <<"llc">>
         THEN <<pkgname_of(a.package) \o "_" \o "llc" \o ToString(a.llc_id)>>
    ELSE IF split_by = <<"core">>
         THEN <<pkgname_of(a.package) \o "_" \o "core" \o ToString(a.core)>>
    ELSE <<>>

\* lines 235-244 and 251-252
suffix_of(split_by, per, a) ==
    IF per = "package" THEN <<pkgname_of(a.package)>>
    ELSE IF split_by = <<"package">> THEN <<pkgname_of(a.package)>>
    ELSE IF split_by = <<"llc">>
         THEN <<pkgname_of(a.package) \o "_" \o "llc" \o ToString(a.llc_id)>>
    ELSE IF split_by = <<"core">>
         THEN <<pkgname_of(a.package) \o "_" \o "core" \o ToString(a.core)>>
    ELSE IF split_by = <<"logical">> THEN <<cpuname_of(a.cpuidx)>>
    ELSE <<>>

\* lines 254-256
chartname_of(chart, suffix) == IF suffix # <<>> THEN chart \o "_" \o suffix[1] ELSE chart

\* lines 273-279: the dimension lines one CPU adds to a chart
dimension_lines(template, chart, per, prefix, nickname_prefix, cpuname) ==
    LET metrics == get(template, "_metrics", <<chart>>)
        divisor == get(template, "_divisor", 1000)
        substitutions == get(template, "_replace", <<>>) IN
    [k \in DOMAIN metrics |->
        LET nickname == IF per = "package" THEN metrics[k] ELSE cpuname IN
        << prefix \o "_" \o metrics[k],
           nickname_prefix \o (IF substitutions # <<>> THEN replace_watts(nickname) ELSE nickname),
           "absolute", 1, divisor >>]

\* a chart appended to `order` at every CPU that goes to it
with_chart_AlwaysAppends(acc, chartname, template, a) ==
    [acc EXCEPT
       !.definitions = IF DictHas(acc.definitions, chartname) THEN acc.definitions
                       ELSE DictSet(acc.definitions, chartname, template),
       !.order = Append(acc.order, << <<a.package, a.core, a.cpuidx>>, chartname >>)]

\* lines 258-260: the chart is created the first time its name is seen
with_chart(acc, chartname, template, a) ==
    IF DictHas(acc.definitions, chartname) THEN acc
    ELSE [acc EXCEPT
            !.definitions = DictSet(acc.definitions, chartname, template),
            !.order = Append(acc.order, << <<a.package, a.core, a.cpuidx>>, chartname >>)]

\* a package-scoped template that adds its dimensions for every CPU of a package
with_lines_EveryCpu(acc, chartname, template, chart, per, suffix, cpuname, a) ==
    LET prefix == IF per = "package" THEN pkgname_of(a.package) ELSE cpuname
        chartdef == acc.definitions.map[chartname] IN
    [acc EXCEPT
       !.definitions =
           DictSet(acc.definitions, chartname,
                   [chartdef EXCEPT !["lines"] =
                       chartdef["lines"]
                       \o dimension_lines(template, chart, per, prefix, "", cpuname)])]

\* lines 262-282, on the locals after the chart exists
with_lines(acc, chartname, template, chart, per, suffix, cpuname, a) ==
    IF per = "package" /\ a.package \in Range(acc.packages_seen) THEN acc
    ELSE LET prefix == IF per = "package" THEN pkgname_of(a.package) ELSE cpuname
             nickname_prefix ==
                 IF per = "package" /\ suffix = <<>> THEN pkgname_of(a.package) \o "_" ELSE ""
             chartdef == acc.definitions.map[chartname] IN
         [acc EXCEPT
            !.definitions =
                DictSet(acc.definitions, chartname,
                        [chartdef EXCEPT !["lines"] =
                            chartdef["lines"]
                            \o dimension_lines(template, chart, per, prefix,
                                               nickname_prefix, cpuname)]),
            !.packages_seen =
                IF per = "package" THEN Append(acc.packages_seen, a.package)
                ELSE acc.packages_seen]

\* one iteration of the inner loop at lines 225-282
SeriesBody(split_by, asg, acc, chart, cpuname) ==
    LET template == CHART_TEMPLATES[chart]
        per == get(template, "_per", "logical")
        a == asg.map[cpuname]
        suffix == suffix_of(split_by, per, a)
        chartname == chartname_of(chart, suffix) IN
    with_lines(with_chart(acc, chartname, template, a),
               chartname, template, chart, per, suffix, cpuname, a)

RECURSIVE CpuLoop(_, _, _, _, _)
CpuLoop(split_by, asg, acc, chart, names) ==
    IF names = <<>> THEN acc
    ELSE CpuLoop(split_by, asg, SeriesBody(split_by, asg, acc, chart, Head(names)),
                 chart, Tail(names))

RECURSIVE ChartLoop(_, _, _, _)
ChartLoop(split_by, asg, acc, charts) ==
    IF charts = <<>> THEN acc
    ELSE ChartLoop(split_by, asg,
                   CpuLoop(split_by, asg, acc, Head(charts), sorted_cpunames(asg)),
                   Tail(charts))

\* line 285: the names of `order`, by topology of first occurrence
order_names(ord) ==
    LET ps == sorted(ord) IN [k \in DOMAIN ps |-> ps[k][2]]

\* lines 220-287, with the charts iterated as `charts`
build_series(self, split_by, charts, asg) ==
    ChartLoop(split_by, asg,
              [definitions |-> self.definitions, order |-> <<>>, packages_seen |-> <<>>],
              charts)

\* a setup that goes on to build the series with no CPU resolved
check_end_NoCpuCheck(self, cfg, charts, snapshot, now, acc) ==
    [ret |-> IF acc.exc # "" THEN Raise(acc.exc) ELSE Return(TRUE),
     last_turbostat |-> snapshot,
     last_turbostat_time |-> now,
     assignment |-> acc.assignment, rapl |-> acc.rapl, reads |-> acc.reads,
     series |-> IF acc.exc = ""
                THEN build_series(self, split_by_of(cfg), charts, acc.assignment)
                ELSE [definitions |-> self.definitions, order |-> <<>>]]

\* lines 216-287, or the exception leaving the loop at 196-214
check_end(self, cfg, charts, snapshot, now, acc) ==
    LET ok == acc.exc = "" /\ Len(acc.assignment.keys) # 0 IN
    [ret |-> IF acc.exc # "" THEN Raise(acc.exc) ELSE Return(ok),
     last_turbostat |-> snapshot,
     last_turbostat_time |-> now,
     assignment |-> acc.assignment, rapl |-> acc.rapl, reads |-> acc.reads,
     series |-> IF ok THEN build_series(self, split_by_of(cfg), charts, acc.assignment)
                ELSE [definitions |-> self.definitions, order |-> <<>>]]

\* lines 188-287, once _invoke_turbostat has ended as `inv`
check_on(self, cfg, charts, m, msr_read, inv) ==
    IF inv.kind = "raise"
    THEN [ret |-> Return(FALSE),
          last_turbostat |-> self.last_turbostat,
          last_turbostat_time |-> self.last_turbostat_time,
          assignment |-> self.assignment, rapl |-> self.rapl, reads |-> <<>>,
          series |-> [definitions |-> self.definitions, order |-> <<>>]]
    ELSE check_end(self, cfg, charts, inv.value.cpus, inv.value.now,
                   TopologyLoop(m, msr_read, inv.value.cpus,
                                [assignment |-> self.assignment, rapl |-> self.rapl,
                                 reads |-> <<>>, exc |-> ""],
                                inv.value.cpus.keys))

\* check() of the object `self` configured as cfg on the machine m, when
\* CHART_TEMPLATES iterates as `charts`, the tool runs as `run`, the clock reads `now`
\* and get_rapl_power_unit(i) would end as msr_read[i]
check(self, cfg, charts, m, run, now, msr_read) ==
    check_on(self, cfg, charts, m, msr_read, invoke_turbostat(run, now))

----------------------------------------------------------------------------
(* The machine and the tool *)

\* two hardware threads of one core, and two single-core packages
TwoThreads ==
    (0 :> [package |-> 0, core |-> 0, llc |-> 0]) @@ (1 :> [package |-> 0, core |-> 0, llc |-> 0])
TwoPackages ==
    (0 :> [package |-> 0, core |-> 0, llc |-> 0]) @@ (1 :> [package |-> 1, core |-> 0, llc |-> 1])

Machines == {TwoThreads, TwoPackages}

\* MSR_RAPL_POWER_UNIT as the tool prints it: 0x000A0E03
MsrReads == {[ok |-> FALSE], [ok |-> TRUE, msr |-> 658947]}

Times == 0..MaxTime

\* self.configuration: no split_by, each valid value, and one that is not valid
Configurations ==
    {<<>>} \cup {("split_by" :> v) : v \in {"logical", "llc", "core", "package", "socket"}}

RECURSIVE ToDigits(_, _)
ToDigits(n, base) ==
    IF n < base THEN <<HexDigits[n + 1]>>
    ELSE Append(ToDigits(n \div base, base), HexDigits[(n % base) + 1])

Field(name, n, base) == <<name, Sep>> \o ToDigits(n, base)

\* The block turbostat --Dump prints for CPU i of machine m: a line with no
\* separator, the thread, core and package counters, a blank line.  The cycle and
\* energy counters of one block all stand at the reading c (TSC at 2c), so between
\* two dumps a CPU's deltas are zero, positive or negative together.
Block(m, i, c) ==
    << <<"t", Blank, "c", Blank, "p">>,
       Field("CPU", i, 10) \o <<Blank, "flags">>,
       Field("TSC", 2 * c, 16),
       Field("aperf", c, 16),
       Field("mperf", c, 16),
       Field("core", m[i].core, 10),
       Field("package", m[i].package, 10),
       Field("Joules PKG", c, 16),
       Field("Joules GFX", c, 16),
       Field("Joules RAM", c, 16),
       <<>> >>

RECURSIVE Dump(_, _, _)
Dump(m, seq, c) ==
    IF seq = <<>> THEN <<>>
    ELSE Block(m, Head(seq), c[Head(seq)]) \o Dump(m, Tail(seq), c)

\* the CPUs the tool reports, in the order it reports them
Orders(S) ==
    { o \in UNION { [1..n -> S] : n \in 0..Cardinality(S) } :
        \A i, j \in DOMAIN o : i # j => o[i] # o[j] }

Garbled == << <<"CPU", Sep, "z">> >>

ToolRuns(m) ==
    {[started |-> FALSE], [started |-> TRUE, out |-> Garbled]}
    \cup { [started |-> TRUE, out |-> Dump(m, o, c)] :
               o \in Orders(DOMAIN m), c \in [DOMAIN m -> Counters] }

----------------------------------------------------------------------------
(* The collector's life: check() once, then one _get_data per interval *)

Init ==
    /\ lines = <<>>
    /\ cpu = LoopStart.cpu
    /\ cpus = LoopStart.cpus
    /\ exc = LoopStart.exc
    /\ InitDelta
    /\ hw \in Machines
    /\ templates = SourceOrder
    /\ configuration \in Configurations
    /\ order = <<>>
    /\ definitions = EmptyDict
    /\ phase = "new"
    /\ assignment = EmptyDict
    /\ rapl = <<>>
    /\ last_turbostat = EmptyDict
    /\ last_turbostat_time = 0
    /\ ret = NoCall
    /\ rapl_reads = <<>>
    /\ poll = NoCall

Self ==
    [order |-> order, definitions |-> definitions, assignment |-> assignment, rapl |-> rapl,
     last_turbostat |-> last_turbostat, last_turbostat_time |-> last_turbostat_time]

\* check(), when the tool's run is one of `runs` and the clock reads one of `times`.
\* The history `poll` keeps whether _invoke_turbostat returned and what the clock read.
CheckOn(runs, times) ==
    /\ phase = "new"
    /\ \E run \in runs, now \in times, msr_read \in [DOMAIN hw -> MsrReads] :
          \E r \in {check(Self, configuration, templates, hw, run, now, msr_read)} :
          /\ definitions' = r.series.definitions
          /\ order' = IF r.ret = Return(TRUE) THEN order_names(r.series.order) ELSE order
          /\ assignment' = r.assignment
          /\ rapl' = r.rapl
          /\ last_turbostat' = r.last_turbostat
          /\ last_turbostat_time' = r.last_turbostat_time
          /\ rapl_reads' = r.reads
          /\ ret' = r.ret
          /\ phase' = IF r.ret = Return(TRUE) THEN "ready"
                       ELSE IF r.ret = Return(FALSE) THEN "disabled" ELSE "crashed"
          /\ poll' = [kind |-> "check", now |-> now,
                      invoked |-> invoke_turbostat(run, now).kind = "return"]
    /\ UNCHANGED <<parseVars, deltaVars, envVars>>

Check == CheckOn(ToolRuns(hw), Times)

GetData ==
    /\ phase = "ready"
    /\ ret = NoCall
    /\ \E run \in ToolRuns(hw), now \in Times :
          \E r \in {get_data(Self, run, now)} :
          /\ last_turbostat' = r.last_turbostat
          /\ last_turbostat_time' = r.last_turbostat_time
          /\ ret' = r.ret
          /\ poll' = [kind |-> "poll",
                      before |-> last_turbostat, before_time |-> last_turbostat_time,
                      now |-> now, invoked |-> r.invoked,
                      turbostat |-> r.turbostat, power |-> r.power]
    /\ UNCHANGED <<parseVars, deltaVars, envVars, phase, order, definitions,
                   assignment, rapl, rapl_reads>>

\* the framework takes what the call returned
Take ==
    /\ ret # NoCall
    /\ ret' = NoCall
    /\ poll' = NoCall
    /\ UNCHANGED <<parseVars, deltaVars, envVars, phase, selfVars, rapl_reads>>

Next == Check \/ GetData \/ Take

Spec == Init /\ [][Next]_vars

----------------------------------------------------------------------------
(* What a poll did, read off its history *)

Polled == poll.kind = "poll"
Elapsed == poll.now - poll.before_time
NewCpus == DOMAIN poll.turbostat.map \ DOMAIN poll.before.map
KnownCpus == DOMAIN poll.turbostat.map \cap DOMAIN poll.before.map
RawDelta(i, name) == poll.turbostat.map[i][name] - poll.before.map[i][name]
Packages == {hw[i].package : i \in DOMAIN hw}
WattsKeys(p) == {pkgname_of(p) \o w : w \in {"_ram_watts", "_pkg_watts", "_gfx_watts"}}
Joules(key, p) ==
    IF key = pkgname_of(p) \o "_ram_watts" THEN "Joules RAM"
    ELSE IF key = pkgname_of(p) \o "_pkg_watts" THEN "Joules PKG" ELSE "Joules GFX"

\* C1: a CPU that is in the new snapshot and not in the retained one is a data gap,
\* not an error: with time having passed and every other CPU's mperf having moved,
\* the poll returns, without a metric of the new CPU and with the metrics of the
\* other CPUs.
C1_NewCpuIsDataGap ==
    (/\ Polled /\ poll.invoked /\ NewCpus # {}
     /\ Elapsed > 0
     /\ \A i \in KnownCpus : RawDelta(i, "mperf") # 0)
    => /\ ret.kind = "return"
       /\ \A i \in NewCpus : cpuname_of(i) \o "_avg_mhz" \notin DOMAIN ret.value
       /\ \A i \in KnownCpus : cpuname_of(i) \o "_avg_mhz" \in DOMAIN ret.value

\* C2: busy_mhz is never computed for a CPU whose mperf delta is 0 and the poll does
\* not fail over it, while avg_mhz is produced for every CPU whenever the elapsed
\* time is positive.
C2_BusyMhzGuarded ==
    (Polled /\ poll.invoked /\ NewCpus = {} /\ Elapsed > 0)
    => /\ ret.kind = "return"
       /\ \A i \in KnownCpus :
             /\ cpuname_of(i) \o "_avg_mhz" \in DOMAIN ret.value
             /\ RawDelta(i, "mperf") = 0 => cpuname_of(i) \o "_busy_mhz" \notin DOMAIN ret.value

C5_RetainsLatestInvocation ==
    (Polled /\ Elapsed > 0) =>
        IF poll.invoked
        THEN last_turbostat = poll.turbostat /\ last_turbostat_time = poll.now
        ELSE last_turbostat = poll.before /\ last_turbostat_time = poll.before_time

\* C6: the RAPL unit register is read for at most one logical CPU of each package,
\* and a package whose read failed has no RaplUnits.
C6_RaplReadOncePerPackage ==
    /\ \A i, j \in DOMAIN rapl_reads :
          i # j => rapl_reads[i].package # rapl_reads[j].package
    /\ \A i \in DOMAIN rapl_reads :
          ~rapl_reads[i].ok => rapl_reads[i].package \notin DOMAIN rapl

\* C9: with a positive elapsed time, every power value a poll returns is >= 0, and
\* it is 0 when the raw energy delta of the CPU it was computed from is negative.
C9_PowerNonNegative ==
    (Polled /\ ret.kind = "return" /\ Elapsed > 0)
    => /\ \A p \in Packages : \A key \in WattsKeys(p) \cap DOMAIN ret.value :
             ret.value[key].den > 0 /\ ret.value[key].num >= 0
       /\ \A n \in DOMAIN poll.power : \A key \in WattsKeys(poll.power[n][1]) :
             RawDelta(poll.power[n][2], Joules(key, poll.power[n][1])) < 0
                 => ret.value[key].num = 0

\* a poll over a positive time that returned power computed from a negative delta
C9_Witness ==
    /\ Polled /\ ret.kind = "return" /\ Elapsed > 0
    /\ \E n \in DOMAIN poll.power :
          /\ RawDelta(poll.power[n][2], "Joules PKG") < 0
          /\ pkgname_of(poll.power[n][1]) \o "_pkg_watts" \in DOMAIN ret.value

\* the CPUs of package p in the order the poll iterated them
CpusOfPackage(p) ==
    SelectSeq(poll.turbostat.keys, LAMBDA i : assignment.map[cpuname_of(i)].package = p)

ExpectedWatts(i, p, name) ==
    LET raw == RawDelta(i, name) IN
    Frac((IF raw > 0 THEN raw ELSE 0) * rapl[p][2].num * 100, rapl[p][2].den * Elapsed)

\* C10: in a poll that returns, the power branch runs at most once per package: for
\* a package with RaplUnits exactly once, for the first of its CPUs in the poll's
\* iteration, and the three values returned are those of that CPU's delta.
C10_PowerOncePerPackage ==
    (Polled /\ ret.kind = "return")
    => \A p \in Packages :
         LET ran == {n \in DOMAIN poll.power : poll.power[n][1] = p}
             own == CpusOfPackage(p) IN
         /\ Cardinality(ran) <= 1
         /\ (p \in DOMAIN rapl /\ own # <<>>)
              => /\ \E n \in ran : poll.power[n][2] = own[1]
                 /\ \A key \in WattsKeys(p) :
                       /\ key \in DOMAIN ret.value
                       /\ ret.value[key] = ExpectedWatts(own[1], p, Joules(key, p))

\* a returning poll over two CPUs of one package with RaplUnits whose energy deltas differ
C10_Witness ==
    /\ Polled /\ ret.kind = "return"
    /\ \E p \in DOMAIN rapl :
          /\ Len(CpusOfPackage(p)) >= 2
          /\ RawDelta(CpusOfPackage(p)[1], "Joules PKG") > 0
          /\ RawDelta(CpusOfPackage(p)[2], "Joules PKG") # RawDelta(CpusOfPackage(p)[1], "Joules PKG")
          /\ ret.value[pkgname_of(p) \o "_pkg_watts"].num > 0

\* C11: a package without RaplUnits after setup has none of its three power metrics
\* in any poll's data, and that is no error: a poll whose CPUs are all retained, over
\* a positive time and with every mperf having moved, returns, and the data of a poll
\* that returns holds avg_mhz and busy_mhz of every CPU in it and the three power
\* metrics of every package with RaplUnits that has a CPU in it.
C11_NoRaplUnitsNoPower ==
    /\ (Polled /\ poll.invoked /\ NewCpus = {} /\ Elapsed > 0
           /\ \A i \in KnownCpus : RawDelta(i, "mperf") # 0) => ret.kind = "return"
    /\ (Polled /\ ret.kind = "return") =>
          /\ \A p \in Packages \ DOMAIN rapl : WattsKeys(p) \cap DOMAIN ret.value = {}
          /\ \A i \in DOMAIN poll.turbostat.map :
                {cpuname_of(i) \o "_avg_mhz", cpuname_of(i) \o "_busy_mhz"} \subseteq DOMAIN ret.value
          /\ \A p \in DOMAIN rapl :
                CpusOfPackage(p) # <<>> => WattsKeys(p) \subseteq DOMAIN ret.value

\* a poll that returns data of two packages, one with RaplUnits and one without
C11_Witness ==
    /\ Polled /\ ret.kind = "return"
    /\ \E p \in DOMAIN rapl, q \in Packages \ DOMAIN rapl :
          /\ CpusOfPackage(p) # <<>> /\ CpusOfPackage(q) # <<>>
          /\ pkgname_of(p) \o "_pkg_watts" \in DOMAIN ret.value
          /\ cpuname_of(CpusOfPackage(q)[1]) \o "_busy_mhz" \in DOMAIN ret.value

----------------------------------------------------------------------------
(* The Series Assignment Builder on more machines and every template order *)

\* four logical CPUs, two packages of two cores, numbered across the packages
FourCpus ==
    (0 :> [package |-> 0, core |-> 0, llc |-> 0]) @@ (1 :> [package |-> 1, core |-> 0, llc |-> 1])
    @@ (2 :> [package |-> 0, core |-> 1, llc |-> 0]) @@ (3 :> [package |-> 1, core |-> 1, llc |-> 1])

\* two single-core packages, the lower CPU in the higher package
Crossed ==
    (0 :> [package |-> 1, core |-> 0, llc |-> 1]) @@ (1 :> [package |-> 0, core |-> 0, llc |-> 0])

SeriesMachines == Machines \cup {FourCpus, Crossed}

\* the orders in which CHART_TEMPLATES.items() may yield the three charts
TemplateOrders == {o \in Orders(Range(SourceOrder)) : Len(o) = Len(SourceOrder)}

\* the calibration runs: Popen fails, or the tool dumps some CPUs of the machine in
\* some order with every counter reading 0
Calibrations(m) ==
    {[started |-> FALSE]}
    \cup { [started |-> TRUE, out |-> Dump(m, o, [i \in DOMAIN m |-> 0])] : o \in Orders(DOMAIN m) }

InitSeries ==
    /\ lines = <<>>
    /\ cpu = LoopStart.cpu
    /\ cpus = LoopStart.cpus
    /\ exc = LoopStart.exc
    /\ InitDelta
    /\ hw \in SeriesMachines
    /\ templates \in TemplateOrders
    /\ configuration \in Configurations
    /\ order = <<>>
    /\ definitions = EmptyDict
    /\ phase = "new"
    /\ assignment = EmptyDict
    /\ rapl = <<>>
    /\ last_turbostat = EmptyDict
    /\ last_turbostat_time = 0
    /\ ret = NoCall
    /\ rapl_reads = <<>>
    /\ poll = NoCall

\* check() at clock reading 0 on a calibration run
Setup == CheckOn(Calibrations(hw), {0})

NextSeries == Setup

SpecSeries == InitSeries /\ [][NextSeries]_vars

----------------------------------------------------------------------------
(* What setup built, read off the Service object *)

\* the packages of the CPUs that have a TopologyAssignment
AssignedPackages == {assignment.map[n].package : n \in DOMAIN assignment.map}

CpusAssignedTo(p) == {n \in DOMAIN assignment.map : assignment.map[n].package = p}

\* the series that are copies of the template `chart`
SeriesOf(chart) ==
    {n \in DOMAIN definitions.map :
         definitions.map[n]["options"] = CHART_TEMPLATES[chart]["options"]}

\* the places <<series, line>> at which the dimension `key` is registered
Registered(key) ==
    {pl \in UNION {{<<n, k>> : k \in DOMAIN definitions.map[n]["lines"]} : n \in DOMAIN definitions.map} :
         definitions.map[pl[1]]["lines"][pl[2]][1] = key}

NoDuplicates(seq) == \A i, j \in DOMAIN seq : i # j => seq[i] # seq[j]

\* C12: on every topology and with every grouping mode, no series name is emitted
\* twice, in self.order or in self.definitions, and each of the three power
\* dimensions of a package is registered exactly once, in a power series, however
\* many logical CPUs the package has.
C12_NoDuplicateSeries ==
    phase = "ready" =>
        /\ NoDuplicates(order)
        /\ NoDuplicates(definitions.keys)
        /\ \A p \in AssignedPackages :
              \A metric \in Range(CHART_TEMPLATES["power"]["_metrics"]) :
                  /\ Cardinality(Registered(pkgname_of(p) \o "_" \o metric)) = 1
                  /\ \A pl \in Registered(pkgname_of(p) \o "_" \o metric) :
                        pl[1] \in SeriesOf("power")

\* setup done on a package of two logical CPUs, with a grouping mode configured
C12_Witness ==
    /\ phase = "ready"
    /\ "split_by" \in DOMAIN configuration
    /\ \E p \in AssignedPackages :
          /\ Cardinality(CpusAssignedTo(p)) >= 2
          /\ Registered(pkgname_of(p) \o "_pkg_watts") # {}

\* the series a CPU with TopologyAssignment `a` goes to under the template `chart`
SeriesFor(chart, a) ==
    chartname_of(chart, suffix_of(split_by_of(configuration),
                                  get(CHART_TEMPLATES[chart], "_per", "logical"), a))

\* (package id, core id, cpu id) of the first occurrence of a series: of the CPU
\* with the lowest index that goes to it
FirstOccurrence(name) ==
    LET members == {n \in DOMAIN assignment.map :
                       \E chart \in DOMAIN CHART_TEMPLATES : SeriesFor(chart, assignment.map[n]) = name}
        first == CHOOSE n \in members :
                     \A o \in members : assignment.map[n].cpuidx <= assignment.map[o].cpuidx IN
    <<assignment.map[first].package, assignment.map[first].core, assignment.map[first].cpuidx>>

Reverse(seq) == [k \in DOMAIN seq |-> seq[Len(seq) + 1 - k]]

\* self.order as check() leaves it when the templates iterate as `charts` and
\* self.assignment iterates as `names`
OrderBuilt(charts, names) ==
    order_names(build_series([definitions |-> EmptyDict], split_by_of(configuration), charts,
                             [keys |-> names, map |-> assignment.map]).order)

\* self.order never puts a series before one of a smaller first occurrence
C13_SortedByTopology ==
    phase = "ready" =>
        \A i, j \in DOMAIN order :
            i < j => ~TupleLess(FirstOccurrence(order[j]), FirstOccurrence(order[i]))

\* C13: the final series order is sorted by (package id, core id, cpu id) of each
\* series' first occurrence, and it is the same whatever the order in which the
\* templates and the CPUs were iterated.
C13_OrderIndependent ==
    /\ C13_SortedByTopology
    /\ phase = "ready" =>
          \A charts \in TemplateOrders, names \in {assignment.keys, Reverse(assignment.keys)} :
              OrderBuilt(charts, names) = order

\* C14: with split_by = package there are as many avg_mhz series, and as many
\* busy_mhz series, as the resolved CPUs have distinct packages, and at most as many
\* power series, on every topology; self.order lists them all.
C14_SeriesPerPackage ==
    (phase = "ready" /\ configuration = ("split_by" :> "package")) =>
        /\ Cardinality(SeriesOf("avg_mhz")) = Cardinality(AssignedPackages)
        /\ Cardinality(SeriesOf("busy_mhz")) = Cardinality(AssignedPackages)
        /\ Cardinality(SeriesOf("power")) <= Cardinality(AssignedPackages)
        /\ Len(order) <= 3 * Cardinality(AssignedPackages)

\* four logical CPUs resolved across two packages, grouped by package
C14_Witness ==
    /\ phase = "ready"
    /\ configuration = ("split_by" :> "package")
    /\ Cardinality(DOMAIN assignment.map) = 4
    /\ Cardinality(AssignedPackages) = 2
    /\ Cardinality(SeriesOf("avg_mhz")) = 2
    /\ Cardinality(SeriesOf("power")) = 2

\* what check() builds of the same TopologyAssignments when the configuration
\* has no split_by
SeriesWhenAbsent == build_series([definitions |-> EmptyDict], split_by_of(<<>>), templates, assignment)

\* C17: a split_by value that is not a valid choice is never fatal and is treated
\* as none: setup succeeds whenever a CPU is resolved, and the series names, their
\* dimensions and their order are those built when split_by is absent.
C17_InvalidSplitByIsNone ==
    (/\ "split_by" \in DOMAIN configuration
     /\ configuration["split_by"] \notin {"logical", "llc", "core", "package"})
    => /\ phase # "crashed"
       /\ (poll.kind = "check" /\ poll.invoked /\ last_turbostat.keys # <<>>) => phase = "ready"
       /\ phase = "ready" =>
             /\ definitions = SeriesWhenAbsent.definitions
             /\ order = order_names(SeriesWhenAbsent.order)

\* setup done with split_by = socket on CPUs of two packages
C17_Witness ==
    /\ phase = "ready"
    /\ configuration = ("split_by" :> "socket")
    /\ Cardinality(AssignedPackages) = 2
    /\ "avg_mhz" \in DOMAIN definitions.map

----------------------------------------------------------------------------
(* What check() did, read off its history *)

Checked == poll.kind = "check"

C15_WitnessNotInvoked == Checked /\ ~poll.invoked /\ ret = Return(FALSE)

----------------------------------------------------------------------------
(* More of the Delta Engine and of the Snapshot Builder *)

\* C16: for two records of one CPU in which every counter of `after` reads at least
\* what it reads in `before`, the Delta Engine returns, for each key the two records
\* share, exactly after[key] - before[key], and nothing for a key that only one of
\* them has.
C16_ExactDifferences ==
    (/\ result.kind # "none"
     /\ \A key \in DOMAIN before \cap DOMAIN after : after[key] >= before[key])
    => /\ result.kind = "return"
       /\ DOMAIN result.value = DOMAIN before \cap DOMAIN after
       /\ \A key \in DOMAIN result.value : result.value[key] = after[key] - before[key]

\* what holds of the Delta Engine whenever it returns: the keys of `before`, each
\* with the exact difference
C16_WhenItReturns ==
    result.kind = "return" =>
        /\ DOMAIN result.value = DOMAIN before
        /\ DOMAIN before \subseteq DOMAIN after
        /\ \A key \in DOMAIN before : result.value[key] = after[key] - before[key]

\* the last CPU header of index i in the stream
LastHeaderOf(ls, i) ==
    LET hs == {h \in 1..Len(ls) : IsHeaderAt(ls, h) /\ StatAt(ls, h).value = i} IN
    CHOOSE h \in hs : \A g \in hs : g <= h

\* the field lines of the block that header h opens
FieldsUnder(ls, h) == {k \in 1..Len(ls) : IsFieldAt(ls, k) /\ OwnerAt(ls, k) = h}

\* C18: when a CPU index stands in more than one CPU header of one output, the
\* later block overwrites the earlier: the record of that index holds CPU and the
\* fields of the last block of that index, each with the value of its last line
\* there, and no field that only an earlier block had.
C18_LaterBlockOverwrites ==
    \A i \in DOMAIN cpus.map :
        LET under == FieldsUnder(lines, LastHeaderOf(lines, i)) IN
        /\ DOMAIN cpus.map[i] = {"CPU"} \cup {StatAt(lines, k).name : k \in under}
        /\ cpus.map[i]["CPU"] = i
        /\ \A k \in under :
              (\A l \in under : StatAt(lines, l).name = StatAt(lines, k).name => l <= k)
                  => cpus.map[i][StatAt(lines, k).name] = StatAt(lines, k).value

\* two headers of one index, a field under the first only, and a field under the second
C18_Witness ==
    /\ exc = ""
    /\ \E h1, k1, h2, k2 \in 1..Len(lines) :
          /\ h1 < k1 /\ k1 < h2 /\ h2 < k2
          /\ IsHeaderAt(lines, h1) /\ IsHeaderAt(lines, h2)
          /\ StatAt(lines, h1).value = StatAt(lines, h2).value
          /\ IsFieldAt(lines, k1) /\ OwnerAt(lines, k1) = h1
          /\ IsFieldAt(lines, k2) /\ OwnerAt(lines, k2) = h2
          /\ StatAt(lines, k1).name # StatAt(lines, k2).name
          /\ StatAt(lines, k1).name \notin DOMAIN cpus.map[StatAt(lines, h1).value]
          /\ StatAt(lines, k2).name \in DOMAIN cpus.map[StatAt(lines, h1).value]

----------------------------------------------------------------------------
(* The polls against what setup registered *)

\* C19: every key of the data a poll returns is a dimension that setup registered
\* in some series; and after setup and any sequence of polls, every CPU of the
\* retained snapshot has a TopologyAssignment.
C19_ReturnedKeysRegistered ==
    /\ (Polled /\ ret.kind = "return") =>
          \A key \in DOMAIN ret.value : Registered(key) # {}
    /\ phase = "ready" =>
          \A i \in DOMAIN last_turbostat.map : DictHas(assignment, cpuname_of(i))

\* a poll that returned the metrics of two CPUs and the power of a package, after
\* a setup that resolved them
C19_Witness ==
    /\ Polled /\ ret.kind = "return"
    /\ Cardinality(DOMAIN poll.turbostat.map) = 2
    /\ Cardinality(DOMAIN ret.value) >= 7
    /\ \E p \in DOMAIN rapl : WattsKeys(p) \subseteq DOMAIN ret.value

\* C20: after a successful setup self.order has no name twice, its names are
\* exactly the keys of self.definitions, and every defined series has at least one
\* dimension line.
C20_OrderMatchesDefinitions ==
    phase = "ready" =>
        /\ NoDuplicates(order)
        /\ Range(order) = DOMAIN definitions.map
        /\ Len(order) = Len(definitions.keys)
        /\ \A n \in DOMAIN definitions.map : definitions.map[n]["lines"] # <<>>

\* setup done with more than one series per template
C20_Witness ==
    /\ phase = "ready"
    /\ Len(order) >= 6
    /\ \E n \in DOMAIN definitions.map : Len(definitions.map[n]["lines"]) >= 2

====
